---- MODULE Spec2Model ----
(***************************************************************************)
(* Model of the actionkv library (src/actionkv/src/lib.rs): the ActionKV   *)
(* store handle created by ActionKV::open and the record decoder           *)
(* process_record, reading the on-disk log                                 *)
(*    checksum:u32-LE | key_len:u32-LE | val_len:u32-LE | key | value      *)
(*                                                                         *)
(* A u32 is kept at its full width.  TLC's integers stop at 2^31 - 1, so a *)
(* u32 read from the stream is its four little-endian bytes, a checksum is *)
(* the set of its one-bits, and a length or file offset is a pair of       *)
(* 16-bit limbs (hi * 2^16 + lo).                                          *)
(***************************************************************************)
EXTENDS Integers, Sequences, FiniteSets, TLC

VARIABLES build, input, file, kv, pos, last

vars == <<build, input, file, kv, pos, last>>

(***************************************************************************)
(* Bounds and input domains.                                               *)
(***************************************************************************)
MaxRecords == 2

\* the records written to the logs: every mix of empty and non-empty key and value
Records ==
    {[key |-> <<>>, value |-> <<>>], [key |-> <<97>>, value |-> <<>>],
     [key |-> <<>>, value |-> <<49>>], [key |-> <<97>>, value |-> <<50, 51>>]}

HeaderFlipBits == {0, 7}

(***************************************************************************)
(* Numbers wider than TLC's integers: hi * 2^16 + lo.                      *)
(***************************************************************************)
Limb == 2^16

Big(n) == [hi |-> n \div Limb, lo |-> n % Limb]

BAdd(a, b) ==
    [hi |-> a.hi + b.hi + ((a.lo + b.lo) \div Limb), lo |-> (a.lo + b.lo) % Limb]

BLeq(a, b) == a.hi < b.hi \/ (a.hi = b.hi /\ a.lo <= b.lo)

BMin(a, b) == IF BLeq(a, b) THEN a ELSE b

\* a - b, for b <= a
BSub(a, b) ==
    IF a.lo >= b.lo
    THEN [hi |-> a.hi - b.hi, lo |-> a.lo - b.lo]
    ELSE [hi |-> a.hi - b.hi - 1, lo |-> a.lo + Limb - b.lo]

\* the value of a number known to be below 2^31
Small(a) == a.hi * Limb + a.lo

\* u32 arithmetic of line 48: the sum overflows iff it needs a 33rd bit
U32Overflows(a, b) == BAdd(a, b).hi >= Limb

U32WrappingAdd(a, b) == [hi |-> BAdd(a, b).hi % Limb, lo |-> BAdd(a, b).lo]

(***************************************************************************)
(* Little-endian u32 fields (byteorder::LittleEndian).                     *)
(***************************************************************************)
IsBitSet(b, k) == (b \div (2^k)) % 2 = 1

\* read_u32::<LittleEndian> as a number
LeToBig(b) == [hi |-> b[3] + 256 * b[4], lo |-> b[1] + 256 * b[2]]

\* read_u32::<LittleEndian> as the set of one-bits of the word
LeToBits(b) == {i \in 0..31 : IsBitSet(b[(i \div 8) + 1], i % 8)}

RECURSIVE BitsToNat(_)
BitsToNat(s) ==
    IF s = {} THEN 0
    ELSE LET i == CHOOSE x \in s : TRUE IN 2^i + BitsToNat(s \ {i})

BitsToLe(s) ==
    [j \in 1..4 |-> BitsToNat({i - 8 * (j - 1) : i \in {x \in s : x \div 8 = j - 1}})]

BigToLe(a) == <<a.lo % 256, a.lo \div 256, a.hi % 256, a.hi \div 256>>

(***************************************************************************)
(* crc32::checksum_ieee: reflected CRC-32, polynomial 0xEDB88320, initial  *)
(* value and final xor 0xFFFFFFFF, one bit at a time.                      *)
(***************************************************************************)
IeeePoly == {31, 30, 29, 27, 26, 24, 23, 21, 20, 19, 15, 9, 8, 5}

AllOnes == 0..31

Xor(s, t) == (s \ t) \cup (t \ s)

ShiftRight1(s) == {i - 1 : i \in s \ {0}}

ByteBits(b) == {k \in 0..7 : IsBitSet(b, k)}

CrcStep(c) == IF 0 \in c THEN Xor(ShiftRight1(c), IeeePoly) ELSE ShiftRight1(c)

CrcByte(c, b) ==
    CrcStep(CrcStep(CrcStep(CrcStep(CrcStep(CrcStep(CrcStep(CrcStep(Xor(c, ByteBits(b))))))))))

IsU32(c) == c \subseteq AllOnes

\* the running value is a u32 after every byte (and is computed before the next byte)
RECURSIVE CrcUpdate(_, _)
CrcUpdate(c, data) ==
    IF data = <<>> THEN c
    ELSE LET next == CrcByte(c, Head(data))
         IN  CASE IsU32(next) -> CrcUpdate(next, Tail(data))

checksum_ieee(data) == Xor(CrcUpdate(AllOnes, data), AllOnes)

(***************************************************************************)
(* The on-disk record layout, and the log files the model starts from: a   *)
(* run of well-formed records, possibly damaged in one place.              *)
(***************************************************************************)
U32Bytes == 4

HeaderLen == 3 * U32Bytes

EncodeRecord(r) ==
    BitsToLe(checksum_ieee(r.key \o r.value)) \o BigToLe(Big(Len(r.key)))
        \o BigToLe(Big(Len(r.value))) \o r.key \o r.value

RecordLen(r) == HeaderLen + Len(r.key) + Len(r.value)

RECURSIVE EncodeLog(_)
EncodeLog(recs) ==
    IF recs = <<>> THEN <<>> ELSE EncodeRecord(Head(recs)) \o EncodeLog(Tail(recs))

\* byte offset at which record i of the log starts
RECURSIVE Offset(_, _)
Offset(recs, i) == IF i = 1 THEN 0 ELSE Offset(recs, i - 1) + RecordLen(recs[i - 1])

FlipBit(b, k) == IF IsBitSet(b, k) THEN b - 2^k ELSE b + 2^k

Logs == UNION {[1..n -> Records] : n \in 0..MaxRecords}

NoTamper == [kind |-> "none", rec |-> 0, at |-> 0, bit |-> 0]

Absent == [recs |-> <<>>, tamper |-> [kind |-> "absent", rec |-> 0, at |-> 0, bit |-> 0]]

Tampers(recs) ==
    {NoTamper}
    \cup {[kind |-> "flip", rec |-> i, at |-> a, bit |-> k] :
            i \in 1..Len(recs), a \in 0..(HeaderLen - 1), k \in HeaderFlipBits}
    \cup UNION {{[kind |-> "flip", rec |-> i, at |-> a, bit |-> k] :
                    a \in HeaderLen..(RecordLen(recs[i]) - 1), k \in 0..7} :
                i \in 1..Len(recs)}
    \cup UNION {{[kind |-> "truncate", rec |-> i, at |-> a, bit |-> 0] :
                    a \in 1..(RecordLen(recs[i]) - 1)} :
                i \in 1..Len(recs)}
    \cup {[kind |-> "lens", rec |-> i, at |-> 0, bit |-> v] :
            i \in 1..Len(recs), v \in 1..2}

Inputs == {Absent} \cup UNION {{[recs |-> l, tamper |-> t] : t \in Tampers(l)} : l \in Logs}

MaxU32 == [hi |-> Limb - 1, lo |-> Limb - 1]

\* a sparse tail long enough for any payload two u32 lengths can declare
HugePad == [hi |-> 2 * Limb, lo |-> 0]

FileOf(in) ==
    LET t == in.tamper
        clean == EncodeLog(in.recs)
        start == Offset(in.recs, t.rec)
    IN  CASE t.kind = "absent" -> [exists |-> FALSE, bytes |-> <<>>, pad |-> Big(0)]
          [] t.kind = "none" -> [exists |-> TRUE, bytes |-> clean, pad |-> Big(0)]
          [] t.kind = "flip" ->
                [exists |-> TRUE,
                 bytes |-> [j \in 1..Len(clean) |->
                              IF j = start + t.at + 1 THEN FlipBit(clean[j], t.bit)
                              ELSE clean[j]],
                 pad |-> Big(0)]
          [] t.kind = "truncate" ->
                [exists |-> TRUE, bytes |-> SubSeq(clean, 1, start + t.at), pad |-> Big(0)]
          [] t.kind = "lens" ->
                [exists |-> TRUE,
                 bytes |-> SubSeq(clean, 1, start + U32Bytes)
                              \o BigToLe(MaxU32) \o BigToLe(Big(t.bit)),
                 pad |-> HugePad]

(***************************************************************************)
(* The byte stream behind the file handle: the explicit bytes followed by  *)
(* file.pad zero bytes.                                                    *)
(***************************************************************************)
FileLen(f) == BAdd(Big(Len(f.bytes)), f.pad)

ByteAt(f, i) == IF i <= Len(f.bytes) THEN f.bytes[i] ELSE 0

\* the n bytes that follow byte offset off
ReadBytes(f, off, n) == [j \in 1..n |-> ByteAt(f, off + j)]

(***************************************************************************)
(* process_record (lines 44-66).  The result records every local of the    *)
(* function next to its outcome:                                           *)
(*   "ok"               Ok(KeyValuePair { key, value })                    *)
(*   "io_error"         Err from read_u32 (UnexpectedEof)                  *)
(*   "panic_overflow"   key_len + val_len overflows u32, debug build       *)
(*   "panic_assert"     debug_assert_eq!(data.len(), data_len) fails       *)
(*   "panic_corruption" panic!("data corruption encountered ...")          *)
(*   "panic_split"      split_off(key_len) with key_len > data.len()       *)
(***************************************************************************)
NoCall ==
    [called |-> FALSE, outcome |-> "none", at |-> Big(0), avail |-> Big(0),
     header |-> FALSE, saved_checksum |-> {}, key_len |-> Big(0), val_len |-> Big(0),
     summed |-> FALSE, data_len |-> Big(0), data |-> <<>>,
     hashed |-> FALSE, checksum |-> {}, key |-> <<>>, value |-> <<>>,
     consumed |-> Big(0)]

\* the comparison of line 56 lost: every checksum is accepted
ChecksumMismatchIgnored(checksum, saved_checksum) == FALSE

\* line 56: checksum != saved_checksum
ChecksumMismatch(checksum, saved_checksum) == checksum # saved_checksum

\* lines 63-64: data.split_off(key_len) leaves the key in data and returns the value
\* the two halves of split_off confused: the key taken from the returned tail
KeyOfTail(data, key_len) == SubSeq(data, key_len + 1, Len(data))

KeyOf(data, key_len) == SubSeq(data, 1, key_len)

ValueOf(data, key_len) == SubSeq(data, key_len + 1, Len(data))

\* line 48: key_len + val_len in u32; the sum wraps where overflow checks are off
DataLen(key_len, val_len) == U32WrappingAdd(key_len, val_len)

OverflowPanics(bld, key_len, val_len) == bld = "debug" /\ U32Overflows(key_len, val_len)

process_record(bld, f, p) ==
    LET off == Small(p)
        avail == BSub(FileLen(f), p)
        call == [NoCall EXCEPT !.called = TRUE, !.at = p, !.avail = avail]
    IN  IF ~BLeq(Big(HeaderLen), avail)
        THEN \* one of the three read_u32 calls meets the end of the stream
             [call EXCEPT !.outcome = "io_error", !.consumed = avail]
        ELSE
        LET saved_checksum == LeToBits(ReadBytes(f, off, U32Bytes))
            key_len == LeToBig(ReadBytes(f, off + U32Bytes, U32Bytes))
            val_len == LeToBig(ReadBytes(f, off + 2 * U32Bytes, U32Bytes))
            hdr == [call EXCEPT !.header = TRUE, !.saved_checksum = saved_checksum,
                                !.key_len = key_len, !.val_len = val_len,
                                !.consumed = Big(HeaderLen)]
        IN  IF OverflowPanics(bld, key_len, val_len)
            THEN [hdr EXCEPT !.outcome = "panic_overflow"]
            ELSE
            LET data_len == DataLen(key_len, val_len)
                \* take(data_len).read_to_end: stops early, without error, at end of file
                n == BMin(data_len, BSub(avail, Big(HeaderLen)))
                data == ReadBytes(f, off + HeaderLen, Small(n))
                rd == [hdr EXCEPT !.summed = TRUE, !.data_len = data_len, !.data = data,
                                  !.consumed = BAdd(Big(HeaderLen), n)]
            IN  IF bld = "debug" /\ n # data_len
                THEN [rd EXCEPT !.outcome = "panic_assert"]
                ELSE
                LET checksum == checksum_ieee(data)
                    ck == [rd EXCEPT !.hashed = TRUE, !.checksum = checksum]
                IN  IF ChecksumMismatch(checksum, saved_checksum)
                    THEN [ck EXCEPT !.outcome = "panic_corruption"]
                    ELSE IF ~BLeq(key_len, n)
                    THEN [ck EXCEPT !.outcome = "panic_split"]
                    ELSE [ck EXCEPT !.outcome = "ok",
                                    !.key = KeyOf(data, Small(key_len)),
                                    !.value = ValueOf(data, Small(key_len))]

Panics == {"panic_overflow", "panic_assert", "panic_corruption", "panic_split"}

(***************************************************************************)
(* ActionKV::open (lines 32-41).                                           *)
(***************************************************************************)
EmptyIndex == [k \in {} |-> Big(0)]

Closed == [state |-> "closed", index |-> EmptyIndex]

OpenFailed == [state |-> "open_failed", index |-> EmptyIndex]

\* the same options with .truncate(true): an existing log is emptied
OpenOptionsOpenTruncate(f) == [exists |-> TRUE, bytes |-> <<>>, pad |-> Big(0)]

\* OpenOptions read + write + create + append, no truncate (lines 33-38)
OpenOptionsOpen(f) == IF f.exists THEN f ELSE [f EXCEPT !.exists = TRUE]

\* the ActionKV value built at lines 39-40
NewActionKV == [state |-> "open", index |-> EmptyIndex]

Running == last.outcome \notin Panics

Init ==
    /\ build \in {"debug", "release"}
    /\ input \in Inputs
    /\ file = FileOf(input)
    /\ kv = Closed
    /\ pos = Big(0)
    /\ last = NoCall

\* open(path) returns Ok(ActionKV { f, index })
OpenOk ==
    /\ Running
    /\ kv.state # "open"
    /\ file' = OpenOptionsOpen(file)
    /\ kv' = NewActionKV
    /\ pos' = Big(0)
    /\ last' = NoCall
    /\ UNCHANGED <<build, input>>

\* OpenOptions::open(path)? returns early with the I/O error
OpenErr ==
    /\ Running
    /\ kv.state # "open"
    /\ kv' = OpenFailed
    /\ pos' = Big(0)
    /\ last' = NoCall
    /\ UNCHANGED <<build, input, file>>

\* the ActionKV value is dropped: the file handle is released
Close ==
    /\ Running
    /\ kv.state = "open"
    /\ kv' = Closed
    /\ pos' = Big(0)
    /\ last' = NoCall
    /\ UNCHANGED <<build, input, file>>

\* process_record(&mut kv.f): decodes at the handle's cursor and advances it
ProcessRecord ==
    /\ Running
    /\ kv.state = "open"
    /\ BLeq(pos, Big(Len(file.bytes)))
    /\ last' = process_record(build, file, pos)
    /\ pos' = BAdd(pos, last'.consumed)
    /\ UNCHANGED <<build, input, file, kv>>

Next == OpenOk \/ OpenErr \/ Close \/ ProcessRecord

Spec == Init /\ [][Next]_vars

(***************************************************************************)
(* What the claims speak of.                                               *)
(***************************************************************************)
\* record i of the input log is in the file, and the damage is elsewhere
Present(i) == input.tamper.kind \in {"none", "flip"} \/ i < input.tamper.rec

Intact(i) == Present(i) /\ input.tamper.rec # i

\* the last call decoded at the offset where record i starts
DecodedAt(i) == last.called /\ last.at = Big(Offset(input.recs, i))

\* the payload bytes the header of the last call declares, without wrap-around
Declared == BAdd(last.key_len, last.val_len)

\* the stream held the whole declared payload after the header
EnoughPayload == BLeq(Declared, BSub(last.avail, Big(HeaderLen)))

\* a full scan from offset p to the end of the file decodes every record
RECURSIVE ScanFrom(_, _, _)
ScanFrom(bld, f, p) ==
    IF p = FileLen(f) THEN TRUE
    ELSE LET r == process_record(bld, f, p)
         IN  r.outcome = "ok" /\ ScanFrom(bld, f, BAdd(p, r.consumed))

LogScansClean == ScanFrom(build, file, Big(0))

\* the index a start-to-end scan builds: the last offset of each key, in log order
RECURSIVE RebuildFrom(_, _, _, _)
RebuildFrom(bld, f, p, idx) ==
    IF p = FileLen(f) THEN idx
    ELSE LET r == process_record(bld, f, p)
         IN  IF r.outcome # "ok" THEN idx
             ELSE RebuildFrom(bld, f, BAdd(p, r.consumed), (r.key :> p) @@ idx)

RebuildIndex == RebuildFrom(build, file, Big(0), EmptyIndex)

LogPrefix(f, g) ==
    /\ g.exists
    /\ Len(f.bytes) <= Len(g.bytes)
    /\ SubSeq(g.bytes, 1, Len(f.bytes)) = f.bytes
    /\ (f.pad = Big(0) \/ (g.bytes = f.bytes /\ BLeq(f.pad, g.pad)))

(***************************************************************************)
(* C2: process_record returns a record only if the checksum stored in the  *)
(* header equals the checksum it recomputed over the payload bytes it      *)
(* read; whenever the two differ it stops with the data-corruption         *)
(* failure and yields no record, in particular when one payload bit of an  *)
(* encoded record has been flipped.                                        *)
(***************************************************************************)
C2_CorruptionNeverAccepted ==
    /\ last.outcome = "ok" => last.hashed /\ last.checksum = last.saved_checksum
    /\ (last.hashed /\ last.checksum # last.saved_checksum)
          => last.outcome = "panic_corruption" /\ last.key = <<>> /\ last.value = <<>>
    /\ \A i \in 1..Len(input.recs) :
          (/\ input.tamper.kind = "flip"
           /\ input.tamper.rec = i
           /\ input.tamper.at >= HeaderLen
           /\ DecodedAt(i))
          => last.outcome = "panic_corruption"

C2_Witness ==
    /\ Len(input.recs) = 2
    /\ input.tamper.kind = "flip"
    /\ input.tamper.at >= HeaderLen
    /\ input.tamper.rec = 2
    /\ DecodedAt(2)
    /\ last.outcome = "panic_corruption"

(***************************************************************************)
(* C3: decoding the layout checksum | key_len | value_len | key | value of *)
(* a record returns exactly that record's key and value, zero-length keys  *)
(* and values included.                                                    *)
(***************************************************************************)
C3_RoundTrip ==
    \A i \in 1..Len(input.recs) :
        (Intact(i) /\ DecodedAt(i))
        => /\ last.outcome = "ok"
           /\ last.key = input.recs[i].key
           /\ last.value = input.recs[i].value

C3_Witness ==
    /\ Len(input.recs) = 2
    /\ Intact(2)
    /\ DecodedAt(2)
    /\ input.recs[1].value = <<>>
    /\ Len(input.recs[2].key) = 1
    /\ Len(input.recs[2].value) = 2
    /\ last.outcome = "ok"

(***************************************************************************)
(* C4: a stream that ends inside the 12-byte header, or holds fewer        *)
(* payload bytes than key_len + value_len declares, makes process_record   *)
(* fail with an I/O error, never with the corruption failure and never     *)
(* with a record.                                                          *)
(***************************************************************************)
C4_TruncationIsIoError ==
    (last.called /\ (~last.header \/ ~EnoughPayload)) => last.outcome = "io_error"

(***************************************************************************)
(* C7: every operation of the store leaves the bytes already in the log    *)
(* unchanged (the log before is a prefix of the log after), and a log is   *)
(* created, empty, only when the file is absent.                           *)
(***************************************************************************)
C7_AppendOnly ==
    [][/\ file.exists => LogPrefix(file, file')
       /\ (~file.exists /\ file'.exists) => (file'.bytes = <<>> /\ file'.pad = Big(0))]_vars

C7_Witness ==
    /\ kv.state = "open"
    /\ input.tamper.kind = "none"
    /\ Len(input.recs) = 2
    /\ file.bytes = EncodeLog(input.recs)

(***************************************************************************)
(* C8: the store is Ready (open has returned it) only after the whole log  *)
(* has been scanned to completion; an I/O or corruption error in a record, *)
(* at the tail or mid-log, keeps the store from being Ready.               *)
(***************************************************************************)
C8_ReadyGating == kv.state = "open" => LogScansClean

(***************************************************************************)
(* C9: in every Ready state each index entry k -> off has off at the start *)
(* of a record whose key is k, and the index equals the one a full scan    *)
(* of the log rebuilds.                                                    *)
(***************************************************************************)
C9_IndexMatchesLog ==
    (kv.state = "open" /\ LogScansClean)
    => /\ \A k \in DOMAIN kv.index :
             LET r == process_record(build, file, kv.index[k])
             IN  r.outcome = "ok" /\ r.key = k
       /\ kv.index = RebuildIndex

(***************************************************************************)
(* C10: given a complete header and a stream holding the declared payload, *)
(* process_record consumes exactly 12 + key_len + value_len bytes, the sum *)
(* taken without 32-bit wrap-around, and the key is the first key_len      *)
(* payload bytes.                                                          *)
(***************************************************************************)
C10_ExactConsumption ==
    (last.called /\ last.header /\ EnoughPayload)
    => /\ last.consumed = BAdd(Big(HeaderLen), Declared)
       /\ last.outcome = "ok"
             => last.key = ReadBytes(file, Small(last.at) + HeaderLen, Small(last.key_len))

====
